---- MODULE Spec2Model ----
(***************************************************************************)
(* Model of src/src/synapseswap.cpp: the UTXO snapshot scan (UtxoIterator, *)
(* buildHashList), the sorted Merkle fold (moveUp, computeMerkleRoot), the *)
(* inclusion proof (getProof, computeProofRoot) and the wallet's unlock    *)
(* items (signTxOut, getUnlockItems).                                      *)
(*                                                                         *)
(* Indices are 0-based in the source and 1-based in TLA+ sequences: the    *)
(* model keeps the source's 0-based values in its variables and adds 1 at  *)
(* every sequence access.                                                  *)
(***************************************************************************)
EXTENDS Integers, Sequences, FiniteSets

VARIABLES
    utxoDb,     \* the chainstate store, as the sequence its iterator yields
    pc,         \* "idle", "getProof" (inside getProof's loop) or "crashed"
    hash,       \* getProof: the argument `hash`
    hashList,   \* getProof: the local `hashList`
    index,      \* getProof: the local `index`
    proof,      \* getProof: the local `proof`
    proofRet,   \* the caller's copy of getProof's return value (None before)
    proofRoot,  \* the caller's copy of computeProofRoot's return value
    root,       \* the caller's copy of computeMerkleRoot's return value
    file,       \* the lines saveHashList wrote (None before)
    itemList    \* the caller's copy of getUnlockItems' return value

vars == <<utxoDb, pc, hash, hashList, index, proof, proofRet, proofRoot, root,
          file, itemList>>

(***************************************************************************)
(* Bounds of the model.                                                    *)
(***************************************************************************)
MaxRecords == 2     \* records of a store of the snapshot family
MaxOuts == 2        \* outputs of one coin record
MaxLeaves == 5      \* records of a store of the proof family

(***************************************************************************)
(* Program constants.                                                      *)
(***************************************************************************)
maxUtxoBlockHeight == 999999999
minUtxoBlockHeight == 0
CoinKeySize == 33

None == <<>>
Some(v) == <<v>>

Max(a, b) == IF a > b THEN a ELSE b

(***************************************************************************)
(* uint256, Hash and the transaction outputs of the host code base.        *)
(* A digest is the term <<"sha256d", data>> over what was hashed: distinct *)
(* inputs give distinct digests (no collisions), and a digest is never the *)
(* all-zero value.                                                         *)
(***************************************************************************)
NullHash == <<"0">>
Hash(data) == <<"sha256d", data>>
IsNullHash(h) == h = NullHash

\* Transaction ids are 1..TxidCount, and 0 is the null uint256.
TxidCount == Max(MaxRecords, MaxLeaves)
Txids == 1..TxidCount
NullTxid == 0

\* uint256's operator<, on leaf digests: a fixed total order that differs
\* from the order of the transaction ids and of the store.
Uint256(h) == (h[2][3] + 1) * (TxidCount + 1) + (TxidCount - h[2][1])
HashLess(a, b) == Uint256(a) < Uint256(b)

Scripts == {"pkh"}
EmptyScript == ""
NullOut == [nValue |-> -1, scriptPubKey |-> EmptyScript]
TxOutIsNull(out) == out.nValue = -1

EmptyCoins == [nHeight |-> 0, vout |-> <<>>]

(***************************************************************************)
(* getUnspentAmount, src lines 84-95.                                      *)
(***************************************************************************)
RECURSIVE SumUnspent(_, _)
SumUnspent(vout, i) ==
    IF i > Len(vout) THEN 0
    ELSE (IF ~TxOutIsNull(vout[i]) /\ vout[i].nValue > 0 THEN vout[i].nValue ELSE 0)
         + SumUnspent(vout, i + 1)

getUnspentAmount(coin) == SumUnspent(coin.vout, 1)

(***************************************************************************)
(* computeHashes, src lines 97-100.                                        *)
(***************************************************************************)
computeHashes(left, right) == Hash(<<left, right>>)

(***************************************************************************)
(* The leveldb iterator. pos is the 1-based position of the cursor; the    *)
(* iterator is Valid while pos is a position of the store.                 *)
(* Next() on an iterator that is not Valid is undefined (leveldb asserts   *)
(* Valid()): ub names what the build does there, "abort" (the assertion or *)
(* a fault ends the process) or "noop" (the iterator stays at the end).    *)
(***************************************************************************)
UBOutcomes == {"abort", "noop"}

IteratorValid(db, pos) == pos <= Len(db)

IteratorNext(db, pos, ub) ==
    IF IteratorValid(db, pos) THEN [pos |-> pos + 1, crashed |-> FALSE]
    ELSE [pos |-> pos, crashed |-> ub = "abort"]

(***************************************************************************)
(* UtxoIteratorItem and UtxoIterator::next, src lines 33-41 and 118-154.   *)
(***************************************************************************)
NullItem == [txid |-> NullTxid, coins |-> EmptyCoins]
isValid(item) == item.txid # NullTxid

HeightInWindow(coins) ==
    ~(coins.nHeight < minUtxoBlockHeight \/ coins.nHeight > maxUtxoBlockHeight)

RECURSIVE UtxoIteratorNext(_, _, _)
UtxoIteratorNext(db, pos, ub) ==
    IF ~IteratorValid(db, pos)
    THEN [item |-> NullItem, pos |-> pos, crashed |-> FALSE]          \* line 153
    ELSE LET rec == db[pos]
             \* the for statement's iterator->Next() taken by `continue`
             step == IteratorNext(db, pos, ub)
         IN  IF rec.keySize # CoinKeySize                              \* line 121
             THEN UtxoIteratorNext(db, step.pos, ub)
             ELSE IF rec.tag # "c"                                     \* line 129
             THEN UtxoIteratorNext(db, step.pos, ub)
             ELSE LET \* line 137: the explicit iterator->Next()
                      after == IteratorNext(db, pos, ub).pos
                      \* lines 140 and 144: `continue` runs Next() once more
                      again == IteratorNext(db, after, ub)
                  IN  IF getUnspentAmount(rec.coins) <= 0 \/ ~HeightInWindow(rec.coins)
                      THEN IF again.crashed
                           THEN [item |-> NullItem, pos |-> again.pos, crashed |-> TRUE]
                           ELSE UtxoIteratorNext(db, again.pos, ub)
                      ELSE [item |-> [txid |-> rec.txid, coins |-> rec.coins],
                            pos |-> after, crashed |-> FALSE]

(***************************************************************************)
(* computeHashTxOut and checkedComputeHashTxOut, src lines 248-264.        *)
(***************************************************************************)
computeHashTxOut(txid, out) == Hash(<<txid, out.scriptPubKey, out.nValue>>)

checkedComputeHashTxOut(txid, out) ==
    IF TxOutIsNull(out) THEN NullHash ELSE computeHashTxOut(txid, out)

(***************************************************************************)
(* std::sort of the hash list (line 293), as an insertion sort.            *)
(***************************************************************************)
RECURSIVE Insert(_, _)
Insert(sorted, h) ==
    IF sorted = <<>> THEN <<h>>
    ELSE IF HashLess(h, Head(sorted)) THEN <<h>> \o sorted
    ELSE <<Head(sorted)>> \o Insert(Tail(sorted), h)

RECURSIVE Sort(_)
Sort(list) == IF list = <<>> THEN <<>> ELSE Insert(Sort(Tail(list)), Head(list))

(***************************************************************************)
(* buildHashList, src lines 276-304.                                       *)
(***************************************************************************)
\* lines 285-290: the non-null hashes of one item's outputs, in order
ItemHashes(item) ==
    LET hs == [i \in 1..Len(item.coins.vout) |->
                  checkedComputeHashTxOut(item.txid, item.coins.vout[i])]
    IN  SelectSeq(hs, LAMBDA h : ~IsNullHash(h))

\* lines 280-291: the scan loop, from cursor position pos
RECURSIVE Collect(_, _, _, _)
Collect(db, pos, acc, ub) ==
    LET r == UtxoIteratorNext(db, pos, ub)
    IN  IF r.crashed THEN [hashList |-> acc, crashed |-> TRUE]
        ELSE IF ~isValid(r.item) THEN [hashList |-> acc, crashed |-> FALSE]
        ELSE Collect(db, r.pos, acc \o ItemHashes(r.item), ub)

\* lines 295-303: std::find, the 0-based position of the first match or -1
\* (a variant that takes a match at the first position for no match)
IndexOf_notFirst(list, h) ==
    IF \E i \in 2..Len(list) : list[i] = h /\ list[1] # h
    THEN (CHOOSE i \in 2..Len(list) :
              list[i] = h /\ \A j \in 1..(i - 1) : list[j] # h) - 1
    ELSE -1

IndexOf(list, h) ==
    IF \E i \in 1..Len(list) : list[i] = h
    THEN (CHOOSE i \in 1..Len(list) :
              list[i] = h /\ \A j \in 1..(i - 1) : list[j] # h) - 1
    ELSE -1

buildHashList(db, hashToProof, ub) ==
    LET c == Collect(db, 1, <<>>, ub)
        sorted == Sort(c.hashList)
    IN  [hashList |-> sorted,
         indexToProof |-> IF hashToProof = None THEN -1
                          ELSE IndexOf(sorted, hashToProof[1]),
         crashed |-> c.crashed]

(***************************************************************************)
(* moveUp, src lines 306-321: the in-place fold of one level. The loop     *)
(* writes element i of the same vector it reads elements 2i and 2i+1 from. *)
(***************************************************************************)
RECURSIVE MoveUpLoop(_, _, _, _)
MoveUpLoop(list, i, count, halfCount) ==
    IF ~(i < halfCount) THEN list
    ELSE LET leftIndex == i * 2
             rightIndex == IF leftIndex + 1 >= count THEN leftIndex ELSE leftIndex + 1
         IN  MoveUpLoop([list EXCEPT ![i + 1] =
                             computeHashes(list[leftIndex + 1], list[rightIndex + 1])],
                        i + 1, count, halfCount)

\* (a variant whose loop runs from the last pair down to the first, and so
\* reads elements it has already overwritten)
RECURSIVE MoveUpLoopDown(_, _, _)
MoveUpLoopDown(list, i, count) ==
    IF i < 0 THEN list
    ELSE LET leftIndex == i * 2
             rightIndex == IF leftIndex + 1 >= count THEN leftIndex ELSE leftIndex + 1
         IN  MoveUpLoopDown([list EXCEPT ![i + 1] =
                                 computeHashes(list[leftIndex + 1], list[rightIndex + 1])],
                            i - 1, count)

moveUp_downward(list) ==
    LET count == Len(list)
        halfCount == (count + 1) \div 2
    IN  SubSeq(MoveUpLoopDown(list, halfCount - 1, count), 1, halfCount)

moveUp(list) ==
    LET count == Len(list)
        halfCount == (count + 1) \div 2
    IN  SubSeq(MoveUpLoop(list, 0, count, halfCount), 1, halfCount)

(***************************************************************************)
(* computeMerkleRoot, src lines 323-337.                                   *)
(***************************************************************************)
RECURSIVE FoldToOne(_)
FoldToOne(list) == IF Len(list) > 1 THEN FoldToOne(moveUp(list)) ELSE list

computeMerkleRoot(db, ub) ==
    LET b == buildHashList(db, None, ub)
        top == FoldToOne(b.hashList)
    IN  [root |-> IF top = <<>> THEN NullHash ELSE Head(top),
         crashed |-> b.crashed]

(***************************************************************************)
(* getProofHash, src lines 266-274. A read outside the vector is undefined *)
(* behaviour; the model makes it visible as the value OutOfRange.          *)
(***************************************************************************)
OutOfRange == <<"out of range">>

SiblingIndex(list, idx) ==
    IF idx % 2 = 0
    THEN (IF idx + 1 >= Len(list) THEN idx ELSE idx + 1)
    ELSE idx - 1

VectorAt(list, i) == IF i \in 0..(Len(list) - 1) THEN list[i + 1] ELSE OutOfRange

getProofHash(list, idx) == VectorAt(list, SiblingIndex(list, idx))

\* (a variant that halves rounding up)
ShiftRight_roundUp(idx) == (idx + 1) \div 2

\* line 364: index >>= 1
ShiftRight(idx) == idx \div 2

(***************************************************************************)
(* computeProofRoot, src lines 397-410.                                    *)
(***************************************************************************)
RECURSIVE ProofFold(_, _, _)
ProofFold(h, proofList, i) ==
    IF i > Len(proofList) THEN h
    ELSE ProofFold(IF proofList[i].left THEN computeHashes(proofList[i].hash, h)
                   ELSE computeHashes(h, proofList[i].hash),
                   proofList, i + 1)

computeProofRoot(h, proofList) == ProofFold(h, proofList, 1)

(***************************************************************************)
(* getUtxoCoins, src lines 412-415: the point lookup of ('c', txid).       *)
(***************************************************************************)
IsCoinRecord(rec) == rec.keySize = CoinKeySize /\ rec.tag = "c"

getUtxoCoins(db, txid) ==
    LET hits == {i \in 1..Len(db) : IsCoinRecord(db[i]) /\ db[i].txid = txid}
    IN  IF hits = {} THEN [found |-> FALSE, coins |-> EmptyCoins]
        ELSE [found |-> TRUE, coins |-> db[CHOOSE i \in hits : TRUE].coins]

(***************************************************************************)
(* signTxOut, src lines 496-514. signable is the set of <<txid, nOut>> for *)
(* which ProduceSignature succeeds. The result of ProduceSignature is      *)
(* ignored: on failure the script the signer left (here the empty script)  *)
(* is returned like a signature.                                           *)
(***************************************************************************)
Signature == "sig"

signTxOut(nOut, txid, signable) ==
    [scriptSig |-> IF <<txid, nOut>> \in signable THEN Signature ELSE EmptyScript]

(***************************************************************************)
(* getUnlockItems, src lines 516-553. mapWallet is the set of the wallet's *)
(* transaction ids, visited in the order of the map's keys.                *)
(***************************************************************************)
\* lines 534-549: the items of one wallet transaction, from output nOut on
RECURSIVE OutItems(_, _, _, _)
OutItems(wtxid, vout, nOut, signable) ==
    IF nOut >= Len(vout) THEN <<>>
    ELSE LET out == vout[nOut + 1]
             rest == OutItems(wtxid, vout, nOut + 1, signable)
         IN  IF TxOutIsNull(out) THEN rest
             ELSE <<[txid |-> wtxid,
                     out |-> nOut,
                     scriptPubKey |-> out.scriptPubKey,
                     amount |-> out.nValue,
                     redeemScript |-> signTxOut(nOut, wtxid, signable).scriptSig]>>
                  \o rest

RECURSIVE WalletItems(_, _, _)
WalletItems(db, mapWallet, signable) ==
    IF mapWallet = {} THEN <<>>
    ELSE LET wtxid == CHOOSE t \in mapWallet : \A u \in mapWallet : t <= u
             c == getUtxoCoins(db, wtxid)
             rest == WalletItems(db, mapWallet \ {wtxid}, signable)
         IN  IF ~c.found THEN rest
             ELSE OutItems(wtxid, c.coins.vout, 0, signable) \o rest

getUnlockItems(db, mapWallet, signable) == WalletItems(db, mapWallet, signable)

(***************************************************************************)
(* The stores the model starts from. A record is a key (its size, its tag  *)
(* byte and, for a coin record, the transaction id) and, for a coin        *)
(* record, the CCoins value. Keys are unique in a store.                   *)
(***************************************************************************)
Amounts == {0, 1}
Outputs == {NullOut} \cup {[nValue |-> a, scriptPubKey |-> s] : a \in Amounts, s \in Scripts}

\* The outputs of a stored CCoins: spent outputs are null, the trailing null
\* outputs are cut off and a record with no output left is erased, so the
\* last output of a stored record is not null.
Vouts ==
    {v \in UNION {[1..n -> Outputs] : n \in 1..MaxOuts} : ~TxOutIsNull(v[Len(v)])}

\* Block heights: the two ends of the window and the first height after it.
Heights == {minUtxoBlockHeight, maxUtxoBlockHeight, maxUtxoBlockHeight + 1}

CoinRecord(t, c) == [keySize |-> CoinKeySize, tag |-> "c", txid |-> t, coins |-> c]

\* the best-block record (a 1-byte key) and a 33-byte key of another tag
OtherRecords ==
    {[keySize |-> 1, tag |-> "B", txid |-> NullTxid, coins |-> EmptyCoins],
     [keySize |-> CoinKeySize, tag |-> "t", txid |-> NullTxid, coins |-> EmptyCoins]}

Key(rec) == <<rec.keySize, rec.tag, rec.txid>>
UniqueKeys(db) == \A i, j \in 1..Len(db) : Key(db[i]) = Key(db[j]) => i = j

\* The snapshot family: up to MaxRecords records of any kind, in any order.
SnapshotRecords ==
    OtherRecords \cup
    {CoinRecord(t, [nHeight |-> h, vout |-> v]) : t \in 1..MaxRecords, h \in Heights, v \in Vouts}

SnapshotStores ==
    {db \in UNION {[1..n -> SnapshotRecords] : n \in 0..MaxRecords} : UniqueKeys(db)}

\* The proof family: up to MaxLeaves coin records, the i-th of transaction i,
\* each with one positive output or two equal ones, inside the window or
\* (one output) after it.
PositiveOut == [nValue |-> 1, scriptPubKey |-> "pkh"]

ProofCoins ==
    {[nHeight |-> minUtxoBlockHeight, vout |-> <<PositiveOut>>],
     [nHeight |-> maxUtxoBlockHeight, vout |-> <<PositiveOut, PositiveOut>>],
     [nHeight |-> maxUtxoBlockHeight + 1, vout |-> <<PositiveOut>>]}

ProofStores ==
    UNION {{[i \in 1..n |-> CoinRecord(i, c[i])] : c \in [1..n -> ProofCoins]} :
           n \in 0..MaxLeaves}

\* The hashes a caller asks a proof for: the leaf hash of any output, in
\* the snapshot or not, and the null hash.
Targets ==
    {computeHashTxOut(t, o) : t \in Txids, o \in Outputs \ {NullOut}} \cup {NullHash}

\* The wallet's transactions and the outputs its signer is asked to sign.
WalletTxids == 1..MaxRecords
OutPoints == WalletTxids \X (0..(MaxOuts - 1))

(***************************************************************************)
(* State machine. A caller makes each call at most once in a behaviour: a  *)
(* call builds its hash list afresh from the store and reads nothing that  *)
(* an earlier call left behind, so a second call of the same function      *)
(* yields nothing new.                                                     *)
(***************************************************************************)
InitLocals ==
    /\ pc = "idle"
    /\ hash = NullHash
    /\ hashList = <<>>
    /\ index = -1
    /\ proof = <<>>
    /\ proofRet = None
    /\ proofRoot = None
    /\ root = None
    /\ file = None
    /\ itemList = None

Init == utxoDb \in SnapshotStores /\ InitLocals

InitProof == utxoDb \in ProofStores /\ InitLocals

\* saveHashList, src lines 417-427. A line of the file is the hex text of one
\* hash, which is one-to-one: file holds the hashes, in the order written.
SaveHashList ==
    /\ pc = "idle"
    /\ file = None
    /\ \E ub \in UBOutcomes :
          LET b == buildHashList(utxoDb, None, ub)
          IN  IF b.crashed
              THEN pc' = "crashed" /\ file' = file
              ELSE pc' = pc /\ file' = Some(b.hashList)
    /\ UNCHANGED <<utxoDb, hash, hashList, index, proof, proofRet, proofRoot, root,
                   itemList>>

\* computeMerkleRoot, src lines 323-337
ComputeMerkleRoot ==
    /\ pc = "idle"
    /\ root = None
    /\ \E ub \in UBOutcomes :
          LET r == computeMerkleRoot(utxoDb, ub)
          IN  IF r.crashed
              THEN pc' = "crashed" /\ root' = root
              ELSE pc' = pc /\ root' = Some(r.root)
    /\ UNCHANGED <<utxoDb, hash, hashList, index, proof, proofRet, proofRoot, file,
                   itemList>>

\* getProof, src lines 339-348: up to the loop
GetProofBegin(h) ==
    /\ pc = "idle"
    /\ proofRet = None
    /\ \E ub \in UBOutcomes :
          LET b == buildHashList(utxoDb, Some(h), ub)
          IN  IF b.crashed
              THEN /\ pc' = "crashed"
                   /\ UNCHANGED <<hash, hashList, index, proof, proofRet>>
              ELSE /\ hash' = h
                   /\ hashList' = b.hashList
                   /\ index' = b.indexToProof
                   /\ proof' = <<>>
                   /\ IF b.indexToProof < 0
                      THEN pc' = "idle" /\ proofRet' = Some(<<>>)
                      ELSE pc' = "getProof" /\ proofRet' = None
    /\ UNCHANGED <<utxoDb, proofRoot, root, file, itemList>>

\* getProof, src lines 350-366: one iteration of the loop
GetProofLoop ==
    /\ pc = "getProof"
    /\ LET node == [left |-> index % 2 > 0, hash |-> getProofHash(hashList, index)]
           up == moveUp(hashList)
       IN  /\ proof' = Append(proof, node)
           /\ hashList' = up
           /\ IF Len(up) = 1
              THEN pc' = "idle" /\ index' = index /\ proofRet' = Some(Append(proof, node))
              ELSE pc' = pc /\ index' = ShiftRight(index) /\ proofRet' = proofRet
    /\ UNCHANGED <<utxoDb, hash, proofRoot, root, file, itemList>>

\* computeProofRoot, src lines 397-410, on the proof getProof returned
ComputeProofRoot ==
    /\ pc = "idle"
    /\ proofRet # None
    /\ proofRoot = None
    /\ proofRoot' = Some(computeProofRoot(hash, proofRet[1]))
    /\ UNCHANGED <<utxoDb, pc, hash, hashList, index, proof, proofRet, root, file,
                   itemList>>

\* getUnlockItems, src lines 516-553
GetUnlockItems(mapWallet, signable) ==
    /\ pc = "idle"
    /\ itemList = None
    /\ itemList' = Some(getUnlockItems(utxoDb, mapWallet, signable))
    /\ UNCHANGED <<utxoDb, pc, hash, hashList, index, proof, proofRet, proofRoot, root,
                   file>>

Next ==
    \/ SaveHashList
    \/ ComputeMerkleRoot
    \/ \E mapWallet \in SUBSET WalletTxids, signable \in SUBSET OutPoints :
          GetUnlockItems(mapWallet, signable)

NextProof ==
    \/ \E h \in Targets : GetProofBegin(h)
    \/ GetProofLoop
    \/ ComputeProofRoot
    \/ ComputeMerkleRoot

Spec == Init /\ [][Next]_vars

SpecProof == InitProof /\ [][NextProof]_vars

(***************************************************************************)
(* Properties.                                                             *)
(***************************************************************************)
Range(s) == {s[i] : i \in 1..Len(s)}
Count(s, v) == Cardinality({i \in 1..Len(s) : s[i] = v})

\* The sorted leaf list a call that returned has built. A call returns only
\* if its scan did not abort, and then the list is the one of outcome "noop"
\* (the outcome is only consulted where the scan runs past the end).
SnapshotLeaves == buildHashList(utxoDb, None, "noop").hashList

RECURSIVE CeilLog2From(_, _, _)
CeilLog2From(n, k, pow) == IF pow >= n THEN k ELSE CeilLog2From(n, k + 1, 2 * pow)
CeilLog2(n) == CeilLog2From(n, 0, 1)

\* One level of the fold, computed from the old level alone.
LevelUp(old) ==
    [i \in 1..((Len(old) + 1) \div 2) |->
        IF 2 * i <= Len(old) THEN computeHashes(old[2 * i - 1], old[2 * i])
        ELSE computeHashes(old[2 * i - 1], old[2 * i - 1])]

RECURSIVE LevelUpTimes(_, _)
LevelUpTimes(level, k) == IF k = 0 THEN level ELSE LevelUpTimes(LevelUp(level), k - 1)

RECURSIVE FoldedRoot(_)
FoldedRoot(level) ==
    IF level = <<>> THEN NullHash
    ELSE IF Len(level) = 1 THEN level[1]
    ELSE FoldedRoot(LevelUp(level))

\* C1: for every non-empty sorted hash list (n >= 1) and every leaf hash h
\* in it, computeProofRoot(h, getProof(h)) equals computeMerkleRoot().
C1_RoundTrip ==
    (proofRoot # None /\ root # None /\ index >= 0) => proofRoot[1] = root[1]

\* C6: for every hash list of length n >= 1 and every target in it, the
\* proof getProof returns has exactly ceil(log2 n) steps.
C6_ProofLength ==
    (proofRet # None /\ index >= 0) =>
        Len(proofRet[1]) = CeilLog2(Len(SnapshotLeaves))

\* C7: computeMerkleRoot returns the null hash for an empty hash list and
\* otherwise the element left after folding level by level, where a level
\* of n elements folds to ceil(n/2) elements, element i being
\* H(old[2i], old[2i+1]) or, for the odd tail, H(old[2i], old[2i]): the
\* in-place update reads no element it has overwritten. getProof's loop
\* folds its list the same way, and a returned proof leaves one element.
C7_RootFold ==
    /\ root # None => root[1] = FoldedRoot(SnapshotLeaves)
    /\ pc = "getProof" => hashList = LevelUpTimes(SnapshotLeaves, Len(proof))

\* C7's case: three distinct leaves [a, b, c] fold to H(H(a,b), H(c,c)).
C7_Witness ==
    /\ root # None
    /\ Len(SnapshotLeaves) = 3
    /\ Cardinality(Range(SnapshotLeaves)) = 3
    /\ root[1] = computeHashes(computeHashes(SnapshotLeaves[1], SnapshotLeaves[2]),
                               computeHashes(SnapshotLeaves[3], SnapshotLeaves[3]))

\* C8: at every iteration of getProof's loop 0 <= index < hashList.size(),
\* getProofHash reads inside the list, and hashList[index] is what
\* computeProofRoot makes of the target and the steps recorded so far; when
\* the loop ends, the element left is what it makes of the whole proof.
C8_IndexInvariant ==
    /\ pc = "getProof" =>
          /\ index \in 0..(Len(hashList) - 1)
          /\ SiblingIndex(hashList, index) \in 0..(Len(hashList) - 1)
          /\ hashList[index + 1] = computeProofRoot(hash, proof)
    /\ (pc = "idle" /\ proofRet # None /\ index >= 0) =>
          /\ Len(hashList) = 1
          /\ index \div 2 = 0
          /\ hashList[1] = computeProofRoot(hash, proofRet[1])

\* C8's case: the loop is at an upper level, at an odd index (its sibling
\* is read at index - 1), after the index was halved from 2 or more.
C8_Witness ==
    /\ pc = "getProof"
    /\ Len(proof) >= 1
    /\ index % 2 = 1
    /\ IndexOf(SnapshotLeaves, hash) >= 2

\* C9: getProof returns an empty proof if and only if the target hash is
\* not in the sorted hash list; a target that is present, even as the only
\* leaf, never gets an empty proof.
C9_EmptyIffAbsent ==
    proofRet # None => (proofRet[1] = <<>> <=> hash \notin Range(SnapshotLeaves))

\* C9's case: the target is the only leaf and its proof is not empty.
C9_Witness ==
    /\ proofRet # None
    /\ SnapshotLeaves = <<hash>>
    /\ proofRet[1] # <<>>

\* A record next() is meant to return: a coin record with a positive
\* unspent amount and a height inside the window.
Eligible(rec) ==
    IsCoinRecord(rec) /\ getUnspentAmount(rec.coins) > 0 /\ HeightInWindow(rec.coins)

RECURSIVE ExpectedLeaves(_, _)
ExpectedLeaves(db, i) ==
    IF i > Len(db) THEN <<>>
    ELSE (IF Eligible(db[i])
          THEN ItemHashes([txid |-> db[i].txid, coins |-> db[i].coins])
          ELSE <<>>) \o ExpectedLeaves(db, i + 1)

\* C2: the scan yields every coin record with a positive unspent amount
\* and a height inside the window exactly once, whatever records precede
\* it: the hash list holds one leaf per non-null output of each of them.
C2_ScanExactlyOnce ==
    file # None =>
        \A h \in Range(file[1]) \cup Range(ExpectedLeaves(utxoDb, 1)) :
            Count(file[1], h) = Count(ExpectedLeaves(utxoDb, 1), h)

\* C3: after buildHashList the hash list holds no leaf of an output that
\* is null or has an amount of 0 or less, and no leaf of a record whose
\* height is outside the window.
C3_Filtering ==
    file # None =>
        \A i \in 1..Len(utxoDb) :
            IsCoinRecord(utxoDb[i]) =>
                \A j \in 1..Len(utxoDb[i].coins.vout) :
                    LET out == utxoDb[i].coins.vout[j]
                    IN  (TxOutIsNull(out) \/ out.nValue <= 0
                           \/ ~HeightInWindow(utxoDb[i].coins))
                        => computeHashTxOut(utxoDb[i].txid, out) \notin Range(file[1])

\* C4: when the signer fails for an output, getUnlockItems leaves that
\* output out of the list it returns: no item carries a failed (empty)
\* authorization.
C4_FailedSignOmitted ==
    itemList # None =>
        \A k \in 1..Len(itemList[1]) : itemList[1][k].redeemScript # EmptyScript

Reorderings(db) ==
    {[i \in 1..Len(db) |-> db[f[i]]] :
        f \in {g \in [1..Len(db) -> 1..Len(db)] : \A i, j \in 1..Len(db) : g[i] = g[j] => i = j}}

\* C5: two stores that hold the same records in different iteration
\* orders give the same root.
C5_OrderIndependent ==
    root # None =>
        \A db \in Reorderings(utxoDb) : \A ub \in UBOutcomes :
            computeMerkleRoot(db, ub) = [root |-> root[1], crashed |-> FALSE]

\* C10: every item getUnlockItems returns has its leaf hash
\* computeHashTxOut(txid, scriptPubKey, amount) in the hash list
\* buildHashList builds over the same store.
C10_ClaimsProvable ==
    (itemList # None /\ file # None) =>
        \A k \in 1..Len(itemList[1]) :
            LET item == itemList[1][k]
            IN  computeHashTxOut(item.txid, [nValue |-> item.amount,
                                             scriptPubKey |-> item.scriptPubKey])
                    \in Range(file[1])

====
